---- MODULE Spec2Model ----
(***************************************************************************)
(* A model of robot/elfin_processing.py: the TrackerProcessing session     *)
(* object (head-velocity gate, Kalman warm-up window, fiducials) and the   *)
(* module's pure functions (frame conversion, arc planning).               *)
(*                                                                         *)
(* Numbers.  The program computes in IEEE floating point through numpy.    *)
(* The model computes exactly, on inputs for which every division and      *)
(* square root of the program has an integer result, and keeps the three   *)
(* kinds of value numpy produces: a finite number, an infinity (x/0) and   *)
(* NaN (0/0, inf-inf).  numpy does not raise on a division by zero.        *)
(***************************************************************************)
EXTENDS Integers, Sequences, FiniteSets, TLC

VARIABLES
    coord_vel,                \* self.coord_vel: the head-pose window
    timestamp,                \* self.timestamp: the readings of time(), one per pose
    velocity_vector,          \* self.velocity_vector: the head-velocity window
    kalman_coord_vector,      \* self.kalman_coord_vector: the warm-up window
    velocity_std,             \* self.velocity_std
    m_tracker_to_robot,       \* self.m_tracker_to_robot
    matrix_tracker_fiducials, \* self.matrix_tracker_fiducials
    tracker_stabilizers,      \* self.tracker_stabilizers: six KalmanTracker
    threshold,                \* const.ROBOT_HEAD_VELOCITY_THRESHOLD (configuration)
    scale_factor,             \* const.ROBOT_VERSOR_SCALE_FACTOR (configuration)
    now,                      \* the system clock, in units of its resolution
    sinceTick,                \* calls of time() since the clock last advanced
    budget,                   \* input changes and clock stalls still allowed
    nGate,                    \* calls of compute_head_move_threshold so far
    nKalman,                  \* calls of kalman_filter so far
    nVelocity,                \* head velocities appended so far
    op,                       \* the operation called last
    args,                     \* its arguments
    ret                       \* its outcome: [status, value]

vars == <<coord_vel, timestamp, velocity_vector, kalman_coord_vector, velocity_std,
          m_tracker_to_robot, matrix_tracker_fiducials, tracker_stabilizers,
          threshold, scale_factor, now, sinceTick, budget,
          nGate, nKalman, nVelocity, op, args, ret>>

session == <<coord_vel, timestamp, velocity_vector, kalman_coord_vector, velocity_std,
             m_tracker_to_robot, matrix_tracker_fiducials, tracker_stabilizers>>

config == <<threshold, scale_factor>>

(***************************************************************************)
(* Program constants.                                                      *)
(***************************************************************************)
VelocityHistory == 10
StdHistory == 30
KalmanWarmUp == 20
NumStabilizers == 6

(***************************************************************************)
(* Bounds of the model.                                                    *)
(***************************************************************************)
MaxGateCalls == 40
MaxKalmanCalls == 22
MaxDisturbances == 1

(***************************************************************************)
(* Floating-point values: finite, infinite (v is the sign) or NaN.         *)
(***************************************************************************)
Fin(n) == [kind |-> "fin", v |-> n]
NaN == [kind |-> "nan", v |-> 0]
Inf(s) == [kind |-> "inf", v |-> s]

Sign(n) == IF n > 0 THEN 1 ELSE IF n < 0 THEN -1 ELSE 0

\* numpy's true division of a finite number by a finite number
FDiv(n, d) ==
    IF d = 0
    THEN IF n = 0 THEN NaN ELSE Inf(Sign(n))
    ELSE Fin((Sign(d) * n) \div (Sign(d) * d))

\* Python's None
None == <<>>

\* s[lo] + ... + s[hi]
RECURSIVE SumRange(_, _, _)
SumRange(s, lo, hi) ==
    IF lo > hi THEN 0
    ELSE IF lo = hi THEN s[lo]
    ELSE LET mid == (lo + hi) \div 2
         IN  SumRange(s, lo, mid) + SumRange(s, mid + 1, hi)

SumSeq(s) == SumRange(s, 1, Len(s))

\* ndarray.flatten() of equally long rows
Flatten(ss) ==
    IF ss = <<>> THEN <<>>
    ELSE LET dim == Len(ss[1])
         IN  [k \in 1..(Len(ss) * dim) |-> ss[((k - 1) \div dim) + 1][((k - 1) % dim) + 1]]

\* a window that never drops its oldest entry
DelFirst_kept(w) == w

\* del w[0]
DelFirst(w) == Tail(w)

(***************************************************************************)
(* The inputs: poses (x, y, z, a, b, g), in millimetres and degrees.       *)
(***************************************************************************)
Poses == { <<0, 0, 0, 0, 0, 0>>, <<50, 0, 0, 0, 0, 0>>, <<0, 100, 0, 0, 0, 90>> }

Thresholds == {10}

ScaleFactors == {70}

(***************************************************************************)
(* time(): the clock reading advances by one unit of its resolution, and   *)
(* not before ClockGap calls have passed since it last advanced.  A clock  *)
(* that is due and does not advance has stalled.                           *)
(***************************************************************************)
ClockGap == VelocityHistory - 1

ClockDue == sinceTick >= ClockGap

\* the steps the clock may take before a reading, with their cost
ClockSteps ==
    IF ClockDue
    THEN {<<1, 0>>} \cup (IF budget > 0 THEN {<<0, 1>>} ELSE {})
    ELSE {<<0, 0>>}

SinceTickAfter(step) == IF step = 1 THEN 1 ELSE IF ClockDue THEN sinceTick ELSE sinceTick + 1

(***************************************************************************)
(* TrackerProcessing.estimate_head_velocity                                *)
(***************************************************************************)
\* coord_vel[a..b].mean(axis=0), component i
MeanOf(rows, i) ==
    FDiv(SumSeq([k \in 1..Len(rows) |-> rows[k][i]]), Len(rows)).v

estimate_head_velocity(cv, ts) ==
    LET half == Len(cv) \div 2
        first == SubSeq(cv, 1, half)
        second == SubSeq(cv, half + 1, Len(cv))
        dim == Len(cv[1])
        coord_init == [i \in 1..dim |-> MeanOf(first, i)]
        coord_final == [i \in 1..dim |-> MeanOf(second, i)]
        dt == ts[Len(ts)] - ts[1]
    IN  [velocity |-> [i \in 1..dim |-> FDiv(coord_final[i] - coord_init[i], dt)],
         distance |-> [i \in 1..dim |-> coord_final[i] - coord_init[i]]]

(***************************************************************************)
(* np.std over the flattened velocity window.  A finite result is the surd *)
(* sqrt(ss)/n, kept as the pair (ss, n); any infinite or NaN sample makes  *)
(* the mean, and with it every deviation, NaN.                             *)
(***************************************************************************)
Surd(ss, n) == [kind |-> "fin", ss |-> ss, n |-> n]
SurdNaN == [kind |-> "nan", ss |-> 0, n |-> 1]

NpStd(vv) ==
    LET xs == Flatten(vv)
        n == Len(xs)
    IN  IF \E k \in 1..n : xs[k].kind # "fin"
        THEN SurdNaN
        ELSE LET s1 == SumSeq([k \in 1..n |-> xs[k].v])
                 s2 == SumSeq([k \in 1..n |-> xs[k].v * xs[k].v])
             IN  Surd(n * s2 - s1 * s1, n)

\* std > thr and std <= thr, as IEEE compares: both are false of NaN
SurdGT(std, thr) ==
    /\ std.kind = "fin"
    /\ \/ thr < 0
       \/ std.ss > thr * thr * std.n * std.n

SurdLE(std, thr) ==
    /\ std.kind = "fin"
    /\ thr >= 0
    /\ std.ss <= thr * thr * std.n * std.n

(***************************************************************************)
(* TrackerProcessing.compute_head_move_threshold                           *)
(***************************************************************************)
\* the velocity estimated one pose early
EnoughPoses_early(cv) == Len(cv) >= VelocityHistory - 1

EnoughPoses(cv) == Len(cv) >= VelocityHistory

EnoughVelocities(vv) == Len(vv) >= StdHistory

InitialStd == Surd(0, 1)

HeadMoveThreshold(cv0, ts0, vv0, std0, current_ref, t, thr) ==
    LET cv1 == Append(cv0, current_ref)
        ts1 == Append(ts0, t)
    IN  IF EnoughPoses(cv1)
        THEN LET est == estimate_head_velocity(cv1, ts1)
                 vv1 == Append(vv0, est.velocity)
                 std1 == IF EnoughVelocities(vv1) THEN NpStd(vv1) ELSE std0
                 vv2 == IF EnoughVelocities(vv1) THEN DelFirst(vv1) ELSE vv1
             IN  [coord_vel |-> DelFirst(cv1), timestamp |-> DelFirst(ts1),
                  velocity_vector |-> vv2, velocity_std |-> std1, appended |-> 1,
                  ret |-> IF SurdGT(std1, thr) THEN FALSE ELSE TRUE]
        ELSE [coord_vel |-> cv1, timestamp |-> ts1,
              velocity_vector |-> vv0, velocity_std |-> std0, appended |-> 0,
              ret |-> FALSE]

\* an input that differs from the one before it uses up one disturbance
ChangeCost(previous, value) == IF previous # <<>> /\ previous[Len(previous)] # value THEN 1 ELSE 0

compute_head_move_threshold(current_ref, step) ==
    /\ nGate < MaxGateCalls
    /\ step \in ClockSteps
    /\ ChangeCost(coord_vel, current_ref) + step[2] <= budget
    /\ \E r \in {HeadMoveThreshold(coord_vel, timestamp, velocity_vector, velocity_std,
                                  current_ref, now + step[1], threshold)} :
           /\ coord_vel' = r.coord_vel
           /\ timestamp' = r.timestamp
           /\ velocity_vector' = r.velocity_vector
           /\ velocity_std' = r.velocity_std
           /\ nVelocity' = nVelocity + r.appended
           /\ ret' = [status |-> "returned", value |-> r.ret]
    /\ now' = now + step[1]
    /\ sinceTick' = SinceTickAfter(step[1])
    /\ budget' = budget - ChangeCost(coord_vel, current_ref) - step[2]
    /\ nGate' = nGate + 1
    /\ op' = "compute_head_move_threshold"
    /\ args' = <<current_ref>>
    /\ UNCHANGED <<kalman_coord_vector, m_tracker_to_robot, matrix_tracker_fiducials,
                   tracker_stabilizers, config, nKalman>>

(***************************************************************************)
(* KalmanTracker.  cv2.KalmanFilter's corrected state is a function of the *)
(* measurements it was given, through fixed transition, measurement and    *)
(* noise matrices.  The model keeps a tracker as the sequence of its       *)
(* measurements, and a filtered value as the sequence it was computed from.*)
(***************************************************************************)
NewKalmanTracker == <<>>

update_kalman(tracker, measurement) == Append(tracker, measurement[1])

\* ps_stb.state[0]
FilterState(tracker) == [kind |-> "kalman", v |-> tracker]

(***************************************************************************)
(* TrackerProcessing.kalman_filter                                         *)
(***************************************************************************)
\* the values of a pose, as the floating-point numbers they are
Raw(coord) == [i \in 1..Len(coord) |-> Fin(coord[i])]

\* the warm-up test with <= for <
Initializing_late(kcv) == Len(kcv) <= KalmanWarmUp

Initializing(kcv) == Len(kcv) < KalmanWarmUp

KalmanFilter(stabilizers0, kcv0, coord_tracker) ==
    LET pose_np == SubSeq(coord_tracker, 1, 3) \o SubSeq(coord_tracker, 4, Len(coord_tracker))
        paired == IF Len(pose_np) < Len(stabilizers0) THEN Len(pose_np) ELSE Len(stabilizers0)
        stabilizers1 == [i \in 1..Len(stabilizers0) |->
                            IF i <= paired
                            THEN update_kalman(stabilizers0[i], <<pose_np[i]>>)
                            ELSE stabilizers0[i]]
        coord_kalman == [i \in 1..paired |-> FilterState(stabilizers1[i])]
        kcv1 == Append(kcv0, SubSeq(coord_kalman, 1, 3))
    IN  IF Initializing(kcv1)
        THEN [tracker_stabilizers |-> stabilizers1, kalman_coord_vector |-> kcv1,
              ret |-> Raw(coord_tracker)]
        ELSE [tracker_stabilizers |-> stabilizers1, kalman_coord_vector |-> DelFirst(kcv1),
              ret |-> coord_kalman]

\* the pose measured last, if any
Measured ==
    IF tracker_stabilizers[1] = <<>> THEN <<>>
    ELSE <<[i \in 1..NumStabilizers |-> tracker_stabilizers[i][Len(tracker_stabilizers[i])]]>>

kalman_filter(coord_tracker) ==
    /\ nKalman < MaxKalmanCalls
    /\ ChangeCost(Measured, coord_tracker) <= budget
    /\ \E r \in {KalmanFilter(tracker_stabilizers, kalman_coord_vector, coord_tracker)} :
           /\ tracker_stabilizers' = r.tracker_stabilizers
           /\ kalman_coord_vector' = r.kalman_coord_vector
           /\ ret' = [status |-> "returned", value |-> r.ret]
    /\ budget' = budget - ChangeCost(Measured, coord_tracker)
    /\ nKalman' = nKalman + 1
    /\ op' = "kalman_filter"
    /\ args' = <<coord_tracker>>
    /\ UNCHANGED <<coord_vel, timestamp, velocity_vector, velocity_std, m_tracker_to_robot,
                   matrix_tracker_fiducials, config, now, sinceTick, nGate, nVelocity>>

(***************************************************************************)
(* The transformations module, on angles that are multiples of 90 degrees: *)
(* the sines and cosines are then 0, 1 or -1 and every matrix is integral. *)
(* A matrix is the sequence of its four rows; indices start at 1.          *)
(***************************************************************************)
Norm360(a) == a % 360

SinD(a) == CASE Norm360(a) = 0 -> 0 [] Norm360(a) = 90 -> 1
             [] Norm360(a) = 180 -> 0 [] Norm360(a) = 270 -> -1

CosD(a) == CASE Norm360(a) = 0 -> 1 [] Norm360(a) = 90 -> 0
             [] Norm360(a) = 180 -> -1 [] Norm360(a) = 270 -> 0

\* math.atan2(y, x) in degrees, for a direction along an axis
Atan2D(y, x) ==
    CASE y = 0 /\ x >= 0 -> 0
      [] y = 0 /\ x < 0 -> 180
      [] y > 0 /\ x = 0 -> 90
      [] y < 0 /\ x = 0 -> -90

\* _AXES2TUPLE: (firstaxis, parity, repetition, frame), and _NEXT_AXIS
AxesTuple(axes) == CASE axes = "sxyz" -> <<0, 0, 0, 0>> [] axes = "rzyx" -> <<0, 0, 0, 1>>

NextAxis(n) == <<1, 2, 0, 1>>[n + 1]

Identity4 == <<<<1, 0, 0, 0>>, <<0, 1, 0, 0>>, <<0, 0, 1, 0>>, <<0, 0, 0, 1>>>>

MatMul(A, B) ==
    [r \in 1..4 |-> [c \in 1..4 |->
        A[r][1] * B[1][c] + A[r][2] * B[2][c] + A[r][3] * B[3][c] + A[r][4] * B[4][c]]]

\* A @ B, which numpy refuses when an operand is None
MatMulOrRaise(A, B) ==
    IF A = None \/ B = None
    THEN [status |-> "raised", value |-> "ValueError"]
    ELSE [status |-> "returned", value |-> MatMul(A, B)]

euler_matrix(a1, a2, a3, axes) ==
    LET t == AxesTuple(axes)
        parity == t[2]
        frame == t[4]
        i == t[1] + 1
        j == NextAxis(t[1] + parity) + 1
        k == NextAxis(t[1] - parity + 1) + 1
        f1 == IF frame = 1 THEN a3 ELSE a1
        f3 == IF frame = 1 THEN a1 ELSE a3
        ai == IF parity = 1 THEN -f1 ELSE f1
        aj == IF parity = 1 THEN -a2 ELSE a2
        ak == IF parity = 1 THEN -f3 ELSE f3
        si == SinD(ai)  sj == SinD(aj)  sk == SinD(ak)
        ci == CosD(ai)  cj == CosD(aj)  ck == CosD(ak)
        cc == ci * ck   cs == ci * sk
        sc == si * ck   ss == si * sk
        entry(r, c) ==
            CASE r = i /\ c = i -> cj * ck
              [] r = i /\ c = j -> sj * sc - cs
              [] r = i /\ c = k -> sj * cc + ss
              [] r = j /\ c = i -> cj * sk
              [] r = j /\ c = j -> sj * ss + cc
              [] r = j /\ c = k -> sj * cs - sc
              [] r = k /\ c = i -> -sj
              [] r = k /\ c = j -> cj * si
              [] r = k /\ c = k -> cj * ci
              [] OTHER -> Identity4[r][c]
    IN  [r \in 1..4 |-> [c \in 1..4 |-> entry(r, c)]]

euler_from_matrix(M, axes) ==
    LET t == AxesTuple(axes)
        parity == t[2]
        frame == t[4]
        i == t[1] + 1
        j == NextAxis(t[1] + parity) + 1
        k == NextAxis(t[1] - parity + 1) + 1
        \* sqrt(M[i,i]^2 + M[j,i]^2): 0 or 1 for a rotation by quarter turns
        cy == IF M[i][i] = 0 /\ M[j][i] = 0 THEN 0 ELSE 1
        ax == IF cy > 0 THEN Atan2D(M[k][j], M[k][k]) ELSE Atan2D(-M[j][k], M[j][j])
        ay == Atan2D(-M[k][i], cy)
        az == IF cy > 0 THEN Atan2D(M[j][i], M[i][i]) ELSE 0
        px == IF parity = 1 THEN -ax ELSE ax
        py == IF parity = 1 THEN -ay ELSE ay
        pz == IF parity = 1 THEN -az ELSE az
    IN  IF frame = 1 THEN <<pz, py, px>> ELSE <<px, py, pz>>

translation_matrix(direction) ==
    [r \in 1..4 |-> [c \in 1..4 |->
        IF c = 4 /\ r <= 3 THEN direction[r] ELSE Identity4[r][c]]]

translation_from_matrix(M) == <<M[1][4], M[2][4], M[3][4]>>

(***************************************************************************)
(* coordinates_to_transformation_matrix, transformation_matrix_to_         *)
(* coordinates and compute_marker_transformation                           *)
(***************************************************************************)
coordinates_to_transformation_matrix(position, orientation, axes) ==
    LET r_ref == euler_matrix(orientation[1], orientation[2], orientation[3], axes)
        t_ref == translation_matrix(position)
    IN  MatMul(t_ref, r_ref)

transformation_matrix_to_coordinates(matrix, axes) ==
    [translation |-> translation_from_matrix(matrix),
     angles_as_deg |-> euler_from_matrix(matrix, axes)]

compute_marker_transformation(coord_raw, obj_ref_mode) ==
    coordinates_to_transformation_matrix(SubSeq(coord_raw[obj_ref_mode + 1], 1, 3),
                                         SubSeq(coord_raw[obj_ref_mode + 1], 4, 6), "rzyx")

(***************************************************************************)
(* transformation_tracker_to_robot and transform_tracker_to_robot          *)
(***************************************************************************)
transformation_tracker_to_robot(m, tracker_coord) ==
    LET M_tracker == coordinates_to_transformation_matrix(
                         SubSeq(tracker_coord, 1, 3), SubSeq(tracker_coord, 4, 6), "rzyx")
        product == MatMulOrRaise(m, M_tracker)
    IN  IF product.status = "raised"
        THEN product
        ELSE LET c == transformation_matrix_to_coordinates(product.value, "rzyx")
             IN  [status |-> "returned", value |-> c.translation \o c.angles_as_deg]

TransformTrackerToRobot(m, coord_tracker) ==
    LET probe == transformation_tracker_to_robot(m, coord_tracker[1])
        ref == transformation_tracker_to_robot(m, coord_tracker[2])
        obj == transformation_tracker_to_robot(m, coord_tracker[3])
    IN  IF probe.status = "raised" THEN probe
        ELSE IF ref.status = "raised" THEN ref
        ELSE IF obj.status = "raised" THEN obj
        ELSE IF probe.value = None
        THEN [status |-> "returned", value |-> coord_tracker]
        ELSE [status |-> "returned", value |-> <<probe.value, ref.value, obj.value>>]

\* the function takes the matrix as an argument: the call is drawn with its inputs
transform_tracker_to_robot ==
    /\ op = "draw"
    /\ op' = "transform_tracker_to_robot"
    /\ ret' = TransformTrackerToRobot(args[1], args[2])
    /\ UNCHANGED <<session, config, now, sinceTick, budget, nGate, nKalman, nVelocity, args>>

(***************************************************************************)
(* TrackerProcessing.SetMatrixTrackerFiducials and estimate_head_center    *)
(***************************************************************************)
SetMatrixTrackerFiducials(fiducials) ==
    /\ matrix_tracker_fiducials' = fiducials
    /\ op' = "SetMatrixTrackerFiducials"
    /\ args' = <<fiducials>>
    /\ ret' = [status |-> "returned", value |-> None]
    /\ UNCHANGED <<coord_vel, timestamp, velocity_vector, kalman_coord_vector, velocity_std,
                   m_tracker_to_robot, tracker_stabilizers, config, now, sinceTick, budget,
                   nGate, nKalman, nVelocity>>

EstimateHeadCenter(fiducials, current_head) ==
    LET m_probe_head_left == fiducials[1]
        m_probe_head_right == fiducials[2]
        m_current_head == compute_marker_transformation(<<current_head>>, 0)
        m_ear_left_new == MatMulOrRaise(m_current_head, m_probe_head_left)
        m_ear_right_new == MatMulOrRaise(m_current_head, m_probe_head_right)
    IN  IF m_ear_left_new.status = "raised" THEN m_ear_left_new
        ELSE IF m_ear_right_new.status = "raised" THEN m_ear_right_new
        ELSE [status |-> "returned",
              value |-> [r \in 1..3 |->
                  FDiv(m_ear_left_new.value[r][4] + m_ear_right_new.value[r][4], 2).v]]

estimate_head_center(current_head) ==
    /\ op' = "estimate_head_center"
    /\ args' = <<current_head>>
    /\ ret' = EstimateHeadCenter(matrix_tracker_fiducials, current_head)
    /\ UNCHANGED <<session, config, now, sinceTick, budget, nGate, nKalman, nVelocity>>

(***************************************************************************)
(* TrackerProcessing.compute_versors and compute_arc_motion                *)
(***************************************************************************)
FAdd(a, b) == IF a.kind = "fin" /\ b.kind = "fin" THEN Fin(a.v + b.v) ELSE NaN

FScale(a, m) == IF a.kind = "fin" THEN Fin(a.v * m) ELSE NaN

\* the largest r in lo..hi with r * r <= n
RECURSIVE RootIn(_, _, _)
RootIn(n, lo, hi) ==
    IF lo >= hi THEN lo
    ELSE LET mid == (lo + hi + 1) \div 2
         IN  IF mid * mid <= n THEN RootIn(n, mid, hi) ELSE RootIn(n, lo, mid - 1)

\* n ** 0.5, for n a perfect square
Sqrt(n) == RootIn(n, 0, n)

IsSquare(n) == Sqrt(n) * Sqrt(n) = n

SumOfSquares(d) == SumSeq([i \in 1..Len(d) |-> d[i] * d[i]])

\* the versor taken from final_point to init_point
compute_versors_swapped(init_point, final_point, scale) ==
    LET d == [i \in 1..Len(final_point) |-> init_point[i] - final_point[i]]
        norm == Sqrt(SumOfSquares(d))
    IN  [i \in 1..Len(d) |-> FScale(FDiv(d[i] * scale, norm), 1)]

compute_versors(init_point, final_point, scale) ==
    LET d == [i \in 1..Len(final_point) |-> final_point[i] - init_point[i]]
        norm == Sqrt(SumOfSquares(d))
    IN  [i \in 1..Len(d) |-> FScale(FDiv(d[i] * scale, norm), 1)]

MiddlePoint(current, new) ==
    <<FDiv(new[1] + current[1], 2).v, FDiv(new[2] + current[2], 2).v,
      FDiv(new[3] + current[3], 2).v, 0, 0, 0>>

MiddleArcFactor == 2

ComputeArcMotion(current, head_center_coordinates, new, scale) ==
    LET head_center == SubSeq(head_center_coordinates, 1, 3) \o SubSeq(new, 4, 6)
        versor_factor_move_out == compute_versors(head_center, current, scale)
        init_move_out_point ==
            [i \in 1..6 |-> IF i <= 3 THEN FAdd(Fin(current[i]), versor_factor_move_out[i])
                                      ELSE Fin(current[i])]
        middle_point == MiddlePoint(current, new)
        versor_factor_middle_arc ==
            LET v == compute_versors(head_center, middle_point, scale)
            IN  [i \in 1..Len(v) |-> FScale(v[i], MiddleArcFactor)]
        middle_arc_point ==
            [i \in 1..3 |-> FAdd(Fin(middle_point[i]), versor_factor_middle_arc[i])]
        versor_factor_arc == compute_versors(head_center, new, scale)
        final_ext_arc_point ==
            [i \in 1..7 |-> IF i <= 3 THEN FAdd(Fin(new[i]), versor_factor_arc[i])
                            ELSE IF i <= 6 THEN Fin(new[i]) ELSE Fin(0)]
    IN  <<init_move_out_point, middle_arc_point \o final_ext_arc_point>>

compute_arc_motion ==
    /\ op = "draw"
    /\ op' = "compute_arc_motion"
    /\ ret' = [status |-> "returned",
               value |-> ComputeArcMotion(args[1], args[2], args[3], scale_factor)]
    /\ UNCHANGED <<session, config, now, sinceTick, budget, nGate, nKalman, nVelocity, args>>

(***************************************************************************)
(* The inputs of the pure functions.                                       *)
(***************************************************************************)
RobotPoses ==
    { <<0, -40, 0, 0, 0, 0>>, <<0, 30, 0, 40, 0, 0>>, <<0, 60, 0, 0, 0, 0>>,
      <<0, 0, 0, 40, 0, 0>>, <<0, 0, 40, 0, 0, 0>>, <<0, 0, 0, 0, 0, 0>>,
      <<30, 40, 0, 0, 0, 0>>, <<-30, -40, 0, 0, 0, 0>>, <<60, 80, 0, 0, 0, 0>>,
      <<40, 0, 30, 0, 0, 0>>, <<20, 30, 60, 0, 0, 0>> }

HeadCenters == { <<0, 0, 0>>, <<0, 30, 0>>, <<0, 60, 0>> }

\* a versor whose square root and divisions are exact
VersorExact(init_point, final_point, scale) ==
    LET d == [i \in 1..Len(final_point) |-> final_point[i] - init_point[i]]
    IN  /\ IsSquare(SumOfSquares(d))
        /\ \A i \in 1..Len(d) :
               Sqrt(SumOfSquares(d)) = 0 \/ (d[i] * scale) % Sqrt(SumOfSquares(d)) = 0

ArcExact(current, hc, new, scale) ==
    LET head_center == hc \o SubSeq(new, 4, 6)
    IN  /\ \A i \in 1..3 : (new[i] + current[i]) % 2 = 0
        /\ VersorExact(head_center, current, scale)
        /\ VersorExact(head_center, MiddlePoint(current, new), scale)
        /\ VersorExact(head_center, new, scale)

ArcInputs(scale) ==
    { a \in RobotPoses \X HeadCenters \X RobotPoses : ArcExact(a[1], a[2], a[3], scale) }

TrackerToRobotMatrices ==
    { None, Identity4,
      coordinates_to_transformation_matrix(<<100, -200, 50>>, <<90, 0, 0>>, "rzyx"),
      coordinates_to_transformation_matrix(<<0, 0, 300>>, <<0, 90, 180>>, "rzyx") }

TrackerPoses ==
    { <<0, 0, 0, 0, 0, 0>>, <<10, 0, 0, 0, 0, 0>>, <<5, 5, 0, 0, 0, 0>>,
      <<20, -30, 40, 90, 0, 270>> }

FrameInputs == TrackerToRobotMatrices \X (TrackerPoses \X TrackerPoses \X TrackerPoses)

LeftEar == translation_matrix(<<-70, 10, 0>>)
RightEar == translation_matrix(<<90, 10, 0>>)
Nasion == coordinates_to_transformation_matrix(<<0, 100, 20>>, <<0, 0, 90>>, "rzyx")

FiducialLists ==
    { <<LeftEar, RightEar, Nasion>>, <<LeftEar, RightEar, None>>, <<LeftEar, None, Nasion>> }

(***************************************************************************)
(* TrackerProcessing.__init__ and the configuration                        *)
(***************************************************************************)
InitState ==
    /\ coord_vel = <<>>
    /\ timestamp = <<>>
    /\ velocity_vector = <<>>
    /\ kalman_coord_vector = <<>>
    /\ velocity_std = InitialStd
    /\ m_tracker_to_robot = None
    /\ matrix_tracker_fiducials = <<None, None, None>>
    /\ tracker_stabilizers = [i \in 1..NumStabilizers |-> NewKalmanTracker]
    /\ threshold \in Thresholds
    /\ scale_factor \in ScaleFactors
    /\ now = 0
    /\ sinceTick = ClockGap
    /\ nGate = 0
    /\ nKalman = 0
    /\ nVelocity = 0

InitSession ==
    /\ InitState
    /\ op = "__init__"
    /\ args = <<>>
    /\ ret = [status |-> "returned", value |-> None]

NotCalled == [status |-> "none", value |-> None]

(***************************************************************************)
(* The motion gate alone, on changing head poses and a stalling clock.     *)
(***************************************************************************)
InitGate == InitSession /\ budget = MaxDisturbances

NextGate ==
    \E current_ref \in Poses, step \in {<<0, 0>>, <<0, 1>>, <<1, 0>>} :
        compute_head_move_threshold(current_ref, step)

SpecGate == InitGate /\ [][NextGate]_vars

(***************************************************************************)
(* The Kalman filter alone, on changing tracker poses.                     *)
(***************************************************************************)
InitKalman == InitSession /\ budget = MaxDisturbances

NextKalman == \E coord_tracker \in Poses : kalman_filter(coord_tracker)

SpecKalman == InitKalman /\ [][NextKalman]_vars

(***************************************************************************)
(* The frame converter, a pure function of its drawn arguments.            *)
(***************************************************************************)
InitFrame ==
    /\ InitState
    /\ budget = 0
    /\ op = "draw"
    /\ args \in FrameInputs
    /\ ret = NotCalled

NextFrame == transform_tracker_to_robot

SpecFrame == InitFrame /\ [][NextFrame]_vars

(***************************************************************************)
(* The arc planner, a pure function of its drawn arguments.                *)
(***************************************************************************)
InitArc ==
    /\ InitState
    /\ budget = 0
    /\ op = "draw"
    /\ args \in ArcInputs(scale_factor)
    /\ ret = NotCalled

NextArc == compute_arc_motion

SpecArc == InitArc /\ [][NextArc]_vars

(***************************************************************************)
(* A session: the operations of one TrackerProcessing in any order, on a   *)
(* steady head and a clock that does not stall.                            *)
(***************************************************************************)
Init == InitSession /\ budget = 0

SteadyPoses == { <<50, 0, 0, 0, 0, 0>> }

HeadPoses == { <<0, 0, 0, 0, 0, 0>>, <<0, 100, 0, 0, 0, 90>> }

Next ==
    \/ \E current_ref \in SteadyPoses, step \in {<<0, 0>>, <<0, 1>>, <<1, 0>>} :
           compute_head_move_threshold(current_ref, step)
    \/ \E coord_tracker \in SteadyPoses : kalman_filter(coord_tracker)
    \/ \E fiducials \in FiducialLists : SetMatrixTrackerFiducials(fiducials)
    \/ \E current_head \in HeadPoses : estimate_head_center(current_head)

Spec == Init /\ [][Next]_vars

(***************************************************************************)
(* The claims.                                                             *)
(***************************************************************************)
GateCalled == op = "compute_head_move_threshold"
KalmanCalled == op = "kalman_filter"
ArcCalled == op = "compute_arc_motion"

\* C1: each of the first 9 calls of compute_head_move_threshold, on which the
\* head-pose window holds fewer than 10 entries after the append, returns False.
C1_FirstCallsReturnFalse ==
    (GateCalled /\ nGate <= VelocityHistory - 1) =>
        /\ ret.value = FALSE
        /\ Len(coord_vel) = nGate
        /\ Len(coord_vel) < VelocityHistory

C1_NinthCall == GateCalled /\ nGate = VelocityHistory - 1 /\ ret.value = FALSE

\* C2: compute_head_move_threshold never returns True while fewer than 30
\* head-velocity samples have been observed since construction.
C2_NotReadyBeforeStd == (GateCalled /\ ret.value = TRUE) => nVelocity >= StdHistory

\* C3: on every call on which the head-pose window holds 10 entries after the
\* append, the return value is True if and only if velocity_std, as it stands
\* after the call, is less than or equal to ROBOT_HEAD_VELOCITY_THRESHOLD.
C3_TrueIffStdWithinThreshold ==
    (GateCalled /\ nGate >= VelocityHistory) =>
        (ret.value = TRUE <=> SurdLE(velocity_std, threshold))

\* the filtered pose: the corrected state of each of the six trackers
FilteredPose == [i \in 1..NumStabilizers |-> FilterState(tracker_stabilizers[i])]

\* C4, as claimed: each of the first 20 calls of kalman_filter returns the raw
\* input pose, and the calls from the 21st on return the filtered pose.
C4_FirstTwentyRaw ==
    KalmanCalled =>
        IF nKalman <= KalmanWarmUp
        THEN ret.value = Raw(args[1])
        ELSE ret.value = FilteredPose

\* C4, as amended: each of the first 19 calls of kalman_filter returns the raw
\* input pose, and the calls from the 20th on return the filtered pose.
C4_FirstNineteenRaw ==
    KalmanCalled =>
        IF nKalman <= KalmanWarmUp - 1
        THEN ret.value = Raw(args[1])
        ELSE ret.value = FilteredPose

C4_TwentiethCallFiltered ==
    KalmanCalled /\ nKalman = KalmanWarmUp /\ ret.value = FilteredPose

\* C5: with the tracker-to-robot matrix unset, transform_tracker_to_robot does
\* not fail and returns the 3 input poses unmodified, in the same order.
C5_PassThroughWhenUnset ==
    (op = "transform_tracker_to_robot" /\ args[1] = None) =>
        (ret.status = "returned" /\ ret.value = args[2])

FiducialsUnset == \E i \in 1..3 : matrix_tracker_fiducials[i] = None

\* C6: with a fiducial matrix unset, estimate_head_center reports
\* CalibrationRequired to its caller instead of raising, and leaves the session
\* state (windows, filters, calibration) unchanged.
C6_CalibrationRequired ==
    [][(op' = "estimate_head_center" /\ FiducialsUnset) =>
           (ret'.status = "CalibrationRequired" /\ UNCHANGED session)]_vars

\* the two points of one of the three versor computations coincide
ZeroLengthVersor(current, hc, new) ==
    LET head_center == hc \o SubSeq(new, 4, 6)
    IN  \/ current = head_center
        \/ MiddlePoint(current, new) = head_center
        \/ new = head_center

AllFinite(points) == \A k \in 1..Len(points) : \A i \in 1..Len(points[k]) : points[k][i].kind = "fin"

\* C7: a zero-length vector in the versor computation is signaled as
\* DegenerateGeometry; no division by zero is performed and no waypoint with
\* undefined coordinates is returned.
C7_DegenerateSignaled ==
    (ArcCalled /\ ZeroLengthVersor(args[1], args[2], args[3])) =>
        /\ ret.status = "DegenerateGeometry"
        /\ ret.status = "returned" => AllFinite(ret.value)

\* C8: the head-pose and timestamp windows hold at most 10 entries, the velocity
\* window at most 30 and the Kalman warm-up window at most 20.
C8_WindowsBounded ==
    /\ Len(coord_vel) <= VelocityHistory
    /\ Len(timestamp) <= VelocityHistory
    /\ Len(velocity_vector) <= StdHistory
    /\ Len(kalman_coord_vector) <= KalmanWarmUp

C8_WindowsEvicting ==
    /\ nGate > VelocityHistory /\ Len(coord_vel) = VelocityHistory - 1
    /\ Len(timestamp) = VelocityHistory - 1
    /\ nVelocity > StdHistory /\ Len(velocity_vector) = StdHistory - 1
    /\ nKalman > KalmanWarmUp /\ Len(kalman_coord_vector) = KalmanWarmUp - 1

\* neither pose, nor their midpoint, lies at the head center
NonDegenerate(current, hc, new) ==
    /\ SubSeq(current, 1, 3) # hc
    /\ SubSeq(new, 1, 3) # hc
    /\ SubSeq(MiddlePoint(current, new), 1, 3) # hc

\* the squared distance of a point of floating-point values from a point
DistSq(p, q) == SumSeq([i \in 1..3 |-> (p[i].v - q[i]) * (p[i].v - q[i])])

\* C9: for a non-degenerate current/target pair, the middle arc point is
\* strictly farther from the head center than the plain midpoint is.
C9_MiddleArcBowsOutward ==
    (ArcCalled /\ NonDegenerate(args[1], args[2], args[3])) =>
        /\ \A i \in 1..3 : ret.value[2][i].kind = "fin"
        /\ DistSq(ret.value[2], args[2]) > DistSq(Raw(MiddlePoint(args[1], args[3])), args[2])

\* a pair whose midpoint lies off both poses and off the axes through the head center
C9_ObliqueArc ==
    /\ ArcCalled
    /\ NonDegenerate(args[1], args[2], args[3])
    /\ SubSeq(args[1], 1, 3) # SubSeq(args[3], 1, 3)
    /\ MiddlePoint(args[1], args[3])[1] # args[2][1]
    /\ MiddlePoint(args[1], args[3])[2] # args[2][2]

\* C10: with the current position off the head center, the move-out point keeps
\* the current orientation and lies ROBOT_VERSOR_SCALE_FACTOR from the current
\* position along the unit direction from the head center, whatever the
\* orientations of the two poses.
C10_MoveOutByScaleFactor ==
    (ArcCalled /\ SubSeq(args[1], 1, 3) # args[2]) =>
        LET current == args[1]
            out == ret.value[1]
            d == [i \in 1..3 |-> current[i] - args[2][i]]
        IN  /\ \A i \in 4..6 : out[i] = Fin(current[i])
            /\ \A i \in 1..3 :
                   /\ out[i].kind = "fin"
                   /\ Sign(out[i].v - current[i]) = Sign(d[i])
                   /\ (out[i].v - current[i]) * (out[i].v - current[i]) * SumOfSquares(d)
                          = scale_factor * scale_factor * d[i] * d[i]

====
